---- MODULE Spec2Model ----
(***************************************************************************)
(* A model of the PDF-to-spreadsheet converter (src/src/pdf_converter.py), *)
(* of the extraction-quality analysis and the insights                     *)
(* (src/src/analyze_results.py) and of the selection of a document on the  *)
(* command line (src/src/run_project.py, main of pdf_converter.py).        *)
(*                                                                         *)
(* Text is a sequence of atoms.  An atom is a short string of characters   *)
(* of one regex class: a word of letters ("Name", "phone"), a run of       *)
(* digits ("1990"), one punctuation character (":", "@") or one white      *)
(* space character (" ", "\t", "\n").  The patterns of the taxonomy are    *)
(* written over the same atoms, so that matching a pattern on the atoms    *)
(* is matching it on the characters: no atom of the input alphabet holds   *)
(* part of a label inside it, "Telephone" is the two atoms "Tele" "phone"  *)
(* and "Valid" the two atoms "Val" "id".                                   *)
(***************************************************************************)
EXTENDS Integers, Sequences, FiniteSets, TLC

VARIABLES
  op,              \* the operation that ran last
  pdf,             \* the document handed to process_single_pdf
  text,            \* the text handed to extract_data_from_text
  extracted_data,  \* what extract_data_from_text returned
  data,            \* what process_single_pdf returned
  aop,             \* the operation of the analyzer that ran last
  frame,           \* DataAnalyzer.data: the records loaded from the spreadsheet
  quality,         \* what analyze_extraction_quality returned
  categories,      \* the counts of create_quality_visualization
  df_columns,      \* save_to_excel: the columns of the DataFrame made of data
  ordered_columns, \* save_to_excel: the columns of the sheet, in order
  saved,           \* save_to_excel: what it returned
  insights,        \* what analyze_data_patterns returned
  displayed,       \* the lines analyze_data_patterns printed under its heading
  entry,           \* the script that was started: run_project.py or pdf_converter.py
  cli,             \* where the started script stands
  directory,       \* data/input: whether it exists, and the PDF files in it
  pdf_files,       \* run_converter: the list it displayed
  main_pdf_files,  \* main of pdf_converter.py: the list it displayed
  answer,          \* the line that input() returned last
  prompts,         \* how often run_converter has shown its prompt
  selected,        \* run_converter: the document selected at its prompt
  selected_pdf,    \* main of pdf_converter.py: the document it converts
  returned         \* what run_converter returned

converter_vars == <<op, pdf, text, extracted_data, data>>
analyzer_vars == <<aop, frame, quality, categories>>
report_vars == <<df_columns, ordered_columns, saved>>
miner_vars == <<insights, displayed>>
cli_vars == <<entry, cli, directory, pdf_files, main_pdf_files, answer, prompts,
              selected, selected_pdf, returned>>
vars == <<op, pdf, text, extracted_data, data, aop, frame, quality, categories,
          df_columns, ordered_columns, saved, insights, displayed,
          entry, cli, directory, pdf_files, main_pdf_files, answer, prompts,
          selected, selected_pdf, returned>>

(***************************************************************************)
(* Bounds of the model.                                                    *)
(***************************************************************************)
MaxPages == 2      \* pages of a document
MaxColumns == 3    \* columns of a loaded spreadsheet
MaxRecords == 2    \* records of a loaded spreadsheet
MaxFields == 3     \* rows of a quality table handed to the visualization
MaxTotal == 10     \* batch size behind such a quality table
MaxOrdered == 4    \* columns of a record set handed to save_to_excel
MaxBatch == 3      \* records of a batch handed to analyze_data_patterns
MaxDocs == 2       \* PDF files in data/input
MaxPrompts == 3    \* times run_converter shows its prompt

(***************************************************************************)
(* Character classes.                                                      *)
(***************************************************************************)
\* \s of the re module
IsSpace(a) == a \in {" ", "\t", "\n"}

\* atoms that are not words of letters
NonAlpha == {" ", "\t", "\n", ":", "@", "/", "-", "12", "1990", "777"}

IsAlpha(a) == a \notin NonAlpha

\* re.IGNORECASE: atoms are compared after case folding
Fold(a) == CASE a = "phone" -> "Phone"
             [] a = "id" -> "ID"
             [] a = "name" -> "Name"
             [] OTHER -> a

(***************************************************************************)
(* The taxonomy: extraction_patterns.  A pattern is a label (a sequence of *)
(* elements: a literal, \s+, an optional group, .*?) followed by \s* and   *)
(* the capture group, of one of three kinds:                               *)
(*   "line"   ([^\n]+)                                                     *)
(*   "email"  ([^\s\n]+@[^\s\n]+)                                          *)
(*   "addr"   ([^\n]+(?:\n[^\n:]+)*?)(?=\n[A-Z][a-z]*:|$)                  *)
(***************************************************************************)
Lit(s) == [k |-> "lit", s |-> s]
WS1 == [k |-> "ws1"]
Opt(r) == [k |-> "opt", r |-> r]
LazyDot == [k |-> "lazydot"]
Pat(label, cap) == [label |-> label, cap |-> cap]
Line(s) == Pat(<<Lit(s)>>, "line")

Fields == << "name", "email", "phone", "address", "date_of_birth", "ssn",
             "position", "salary", "experience", "availability",
             "employment_type", "degree", "major", "institution",
             "graduation_year", "gpa", "customer_name", "purchase_date",
             "product", "rating", "recommend", "customer_id" >>

FieldSet == {Fields[i] : i \in 1..Len(Fields)}

extraction_patterns ==
  [f \in FieldSet |->
    CASE f = "name" ->
           << Line(<<"Name", ":">>),
              Line(<<"Full", " ", "Name", ":">>),
              Line(<<"Applicant", " ", "Name", ":">>) >>
      [] f = "email" ->
           << Pat(<<Lit(<<"Email">>), Opt(<<WS1, Lit(<<"Address">>)>>), Lit(<<":">>)>>, "email"),
              Pat(<<Lit(<<"E", "-", "mail", ":">>)>>, "email") >>
      [] f = "phone" ->
           << Pat(<<Lit(<<"Phone">>), Opt(<<WS1, Lit(<<"Number">>)>>), Lit(<<":">>)>>, "line"),
              Line(<<"Tele", "Phone", ":">>),
              Line(<<"Contact", " ", "Number", ":">>) >>
      [] f = "address" ->
           << Pat(<<Lit(<<"Address", ":">>)>>, "addr"),
              Line(<<"Mailing", " ", "Address", ":">>) >>
      [] f = "date_of_birth" ->
           << Line(<<"Date", " ", "of", " ", "Birth", ":">>),
              Line(<<"DOB", ":">>),
              Line(<<"Birth", " ", "Date", ":">>) >>
      [] f = "ssn" ->
           << Line(<<"Social", " ", "Security", " ", "Number", ":">>),
              Line(<<"SSN", ":">>) >>
      [] f = "position" ->
           << Line(<<"Position", " ", "Applied", " ", "For", ":">>),
              Line(<<"Job", " ", "Title", ":">>),
              Line(<<"Position", ":">>) >>
      [] f = "salary" ->
           << Line(<<"Desired", " ", "Salary", ":">>),
              Line(<<"Expected", " ", "Salary", ":">>),
              Line(<<"Salary", " ", "Expectation", ":">>) >>
      [] f = "experience" ->
           << Line(<<"Years", " ", "of", " ", "Experience", ":">>),
              Line(<<"Experience", ":">>),
              Line(<<"Work", " ", "Experience", ":">>) >>
      [] f = "availability" ->
           << Line(<<"Availability", ":">>),
              Line(<<"Start", " ", "Date", ":">>) >>
      [] f = "employment_type" ->
           << Line(<<"Employment", " ", "Type", ":">>),
              Line(<<"Position", " ", "Type", ":">>) >>
      [] f = "degree" ->
           << Line(<<"Highest", " ", "Degree", ":">>),
              Line(<<"Degree", ":">>),
              Line(<<"Education", " ", "Level", ":">>) >>
      [] f = "major" ->
           << Line(<<"Major", "/", "Field", " ", "of", " ", "Study", ":">>),
              Line(<<"Major", ":">>),
              Line(<<"Field", " ", "of", " ", "Study", ":">>) >>
      [] f = "institution" ->
           << Line(<<"Institution", ":">>),
              Line(<<"University", ":">>),
              Line(<<"School", ":">>) >>
      [] f = "graduation_year" ->
           << Line(<<"Graduation", " ", "Year", ":">>),
              Line(<<"Grad", " ", "Year", ":">>) >>
      [] f = "gpa" ->
           << Line(<<"GPA", ":">>),
              Line(<<"Grade", " ", "Point", " ", "Average", ":">>) >>
      [] f = "customer_name" ->
           << Line(<<"Customer", " ", "Name", ":">>) >>
      [] f = "purchase_date" ->
           << Line(<<"Purchase", " ", "Date", ":">>) >>
      [] f = "product" ->
           << Pat(<<Lit(<<"Product">>), Opt(<<WS1, Lit(<<"Purchased">>)>>), Lit(<<":">>)>>, "line") >>
      [] f = "rating" ->
           << Pat(<<Opt(<<Lit(<<"Overall">>), WS1>>), Opt(<<Lit(<<"Satisfaction">>), WS1>>),
                    Lit(<<"Rating", ":">>)>>, "line"),
              Pat(<<Lit(<<"Rate">>), LazyDot, Lit(<<":">>)>>, "line") >>
      [] f = "recommend" ->
           << Line(<<"Would", " ", "Recommend", ":">>),
              Line(<<"Recommendation", ":">>) >>
      [] f = "customer_id" ->
           << Line(<<"Customer", " ", "ID", ":">>),
              Line(<<"ID", ":">>) >> ]

(***************************************************************************)
(* re.search(pattern, text, re.IGNORECASE | re.MULTILINE).  Positions run  *)
(* from 1 to Len(t) + 1; a span <<b, e>> is the atoms b .. e - 1.          *)
(***************************************************************************)
Down(hi, lo) == [i \in 1..(hi - lo + 1) |-> hi - i + 1]
Up(lo, hi) == [i \in 1..(hi - lo + 1) |-> lo + i - 1]

\* the atom a belongs to the character class cls
InClass(a, cls) ==
  CASE cls = "\\s" -> IsSpace(a)
    [] cls = "[^\\n]" -> a # "\n"
    [] cls = "[^\\s\\n]" -> ~IsSpace(a)
    [] cls = "[^\\n:]" -> a # "\n" /\ a # ":"
    [] cls = "[a-z]" -> IsAlpha(a)

\* the length of the longest run of atoms of class cls from position p on
RECURSIVE Run(_, _, _)
Run(t, p, cls) ==
  IF p <= Len(t) /\ InClass(t[p], cls) THEN 1 + Run(t, p + 1, cls) ELSE 0

\* the literal s stands at position p
LitAt(t, s, p) ==
  /\ p + Len(s) - 1 <= Len(t)
  /\ \A i \in 1..Len(s) : Fold(t[p + i - 1]) = Fold(s[i])

\* The positions at which the label els, started at p, can end, in the order
\* in which the backtracking matcher tries them.
RECURSIVE LabelEnds(_, _, _)
RECURSIVE LabelEndsFrom(_, _, _)
LabelEnds(t, els, p) ==
  IF Len(els) = 0 THEN <<p>>
  ELSE LET e == Head(els)
           rest == Tail(els)
       IN CASE e.k = "lit" ->
                 IF LitAt(t, e.s, p) THEN LabelEnds(t, rest, p + Len(e.s)) ELSE <<>>
            [] e.k = "ws1" ->
                 LabelEndsFrom(t, rest, Down(p + Run(t, p, "\\s"), p + 1))
            [] e.k = "opt" ->
                 LabelEnds(t, e.r \o rest, p) \o LabelEnds(t, rest, p)
            [] e.k = "lazydot" ->
                 LabelEndsFrom(t, rest, Up(p, p + Run(t, p, "[^\\n]")))

LabelEndsFrom(t, els, ps) ==
  IF Len(ps) = 0 THEN <<>>
  ELSE LabelEnds(t, els, Head(ps)) \o LabelEndsFrom(t, els, Tail(ps))

\* $ under re.MULTILINE: the end of the text or the position before a newline
Dollar(t, q) == q = Len(t) + 1 \/ t[q] = "\n"

\* (?=\n[A-Z][a-z]*:|$) under re.IGNORECASE: the classes are all letters
Lookahead(t, q) ==
  \/ /\ q <= Len(t)
     /\ t[q] = "\n"
     /\ LET r == Run(t, q + 1, "[a-z]")
        IN r >= 1 /\ q + 1 + r <= Len(t) /\ t[q + 1 + r] = ":"
  \/ Dollar(t, q)

\* (?:\n[^\n:]+)*? followed by the lookahead, from position q: the end of the
\* first way to match that the matcher finds, 0 if there is none
RECURSIVE AddrTail(_, _)
RECURSIVE AddrTailFrom(_, _)
AddrTail(t, q) ==
  IF Lookahead(t, q) THEN q
  ELSE IF q <= Len(t) /\ t[q] = "\n" /\ Run(t, q + 1, "[^\\n:]") >= 1
       THEN AddrTailFrom(t, Down(q + 1 + Run(t, q + 1, "[^\\n:]"), q + 2))
       ELSE 0

AddrTailFrom(t, qs) ==
  IF Len(qs) = 0 THEN 0
  ELSE LET e == AddrTail(t, Head(qs))
       IN IF e # 0 THEN e ELSE AddrTailFrom(t, Tail(qs))

\* The capture group started at k: the span <<k, e>> of the first way to
\* match it (and the lookahead) that the matcher finds, <<>> if there is none.
Capture(t, cap, k) ==
  CASE cap = "line" ->
         LET r == Run(t, k, "[^\\n]")
         IN IF r >= 1 THEN <<k, k + r>> ELSE <<>>
    [] cap = "email" ->
         LET r == Run(t, k, "[^\\s\\n]")
         IN IF \E i \in (k + 1)..(k + r - 2) : t[i] = "@" THEN <<k, k + r>> ELSE <<>>
    [] cap = "addr" ->
         LET r == Run(t, k, "[^\\n]")
             e == AddrTailFrom(t, Down(k + r, k + 1))
         IN IF e # 0 THEN <<k, e>> ELSE <<>>

\* the first of the starts ks of the capture group at which it matches
RECURSIVE FirstCapture(_, _, _)
FirstCapture(t, cap, ks) ==
  IF Len(ks) = 0 THEN <<>>
  ELSE LET c == Capture(t, cap, Head(ks))
       IN IF c # <<>> THEN c ELSE FirstCapture(t, cap, Tail(ks))

\* the starts of the capture group after \s* (greedy), for each end of the label
RECURSIVE CaptureStarts(_, _)
CaptureStarts(t, ends) ==
  IF Len(ends) = 0 THEN <<>>
  ELSE Down(Head(ends) + Run(t, Head(ends), "\\s"), Head(ends))
         \o CaptureStarts(t, Tail(ends))

\* the pattern matched at position i: the span of group 1, or <<>>
MatchAt(t, pat, i) ==
  IF Len(LabelEnds(t, pat.label, i)) = 0 THEN <<>>
  ELSE FirstCapture(t, pat.cap, CaptureStarts(t, LabelEnds(t, pat.label, i)))

\* re.search: the leftmost match; the span of group 1, or <<>>
RECURSIVE SearchFrom(_, _, _)
SearchFrom(t, pat, i) ==
  IF i > Len(t) + 1 THEN <<>>
  ELSE IF Len(MatchAt(t, pat, i)) > 0 THEN MatchAt(t, pat, i)
       ELSE SearchFrom(t, pat, i + 1)

Search(t, pat) == SearchFrom(t, pat, 1)

Group1(t, m) == SubSeq(t, m[1], m[2] - 1)

(***************************************************************************)
(* value = match.group(1).strip(); value = re.sub(r'\s+', ' ', value)      *)
(***************************************************************************)
RECURSIVE LStrip(_)
LStrip(s) == IF Len(s) > 0 /\ IsSpace(s[1]) THEN LStrip(Tail(s)) ELSE s

RECURSIVE RStrip(_)
RStrip(s) ==
  IF Len(s) > 0 /\ IsSpace(s[Len(s)]) THEN RStrip(SubSeq(s, 1, Len(s) - 1)) ELSE s

Strip(s) == RStrip(LStrip(s))

\* re.sub(r'\s+', ' ', s)
RECURSIVE Collapse(_)
Collapse(s) ==
  IF Len(s) = 0 THEN <<>>
  ELSE IF IsSpace(s[1])
       THEN <<" ">> \o Collapse(SubSeq(s, 1 + Run(s, 1, "\\s"), Len(s)))
       ELSE <<s[1]>> \o Collapse(Tail(s))

\* a normalisation that trims and leaves the inner white space as it is
NormaliseValueTrimOnly(s) == Strip(s)

NormaliseValue(s) == Collapse(Strip(s))

(***************************************************************************)
(* extract_data_from_text                                                  *)
(***************************************************************************)
None == [none |-> TRUE]
Some(v) == [none |-> FALSE, v |-> v]

NotFound == <<"Not", " ", "Found">>

\* a loop without the break: the last pattern that matches decides
RECURSIVE MatchPatternsNoBreak(_, _)
MatchPatternsNoBreak(t, patterns) ==
  IF Len(patterns) = 0 THEN None
  ELSE IF ~MatchPatternsNoBreak(t, Tail(patterns)).none
       THEN MatchPatternsNoBreak(t, Tail(patterns))
       ELSE IF Len(Search(t, Head(patterns))) > 0
            THEN Some(NormaliseValue(Group1(t, Search(t, Head(patterns)))))
            ELSE None

\* a loop that goes on to the next pattern when the capture is empty
RECURSIVE MatchPatternsSkipEmpty(_, _)
MatchPatternsSkipEmpty(t, patterns) ==
  IF Len(patterns) = 0 THEN None
  ELSE IF /\ Len(Search(t, Head(patterns))) > 0
          /\ Len(NormaliseValue(Group1(t, Search(t, Head(patterns))))) > 0
       THEN Some(NormaliseValue(Group1(t, Search(t, Head(patterns)))))
       ELSE MatchPatternsSkipEmpty(t, Tail(patterns))

\* the loop over the patterns of one field: the value it leaves in `value`
RECURSIVE MatchPatterns(_, _)
MatchPatterns(t, patterns) ==
  IF Len(patterns) = 0 THEN None
  ELSE IF Len(Search(t, Head(patterns))) > 0
       THEN Some(NormaliseValue(Group1(t, Search(t, Head(patterns)))))
       ELSE MatchPatterns(t, Tail(patterns))

\* value if value else "Not Found"
ValueOrNotFound(value) ==
  IF ~value.none /\ Len(value.v) > 0 THEN value.v ELSE NotFound

\* a recognizer that stores only the fields one of whose patterns matched
ExtractDataFromTextMatchedOnly(t) ==
  [f \in {g \in FieldSet : ~MatchPatterns(t, extraction_patterns[g]).none} |->
     ValueOrNotFound(MatchPatterns(t, extraction_patterns[f]))]

ExtractDataFromText(t) ==
  [f \in FieldSet |-> ValueOrNotFound(MatchPatterns(t, extraction_patterns[f]))]

(***************************************************************************)
(* extract_text_from_pdf.  A document is unreadable (pdfplumber.open       *)
(* raises) or a sequence of pages; page.extract_text() gives a text or     *)
(* None, and None + "\n" raises TypeError inside the try block.            *)
(***************************************************************************)
PageTexts ==
  { <<"Name", ":", " ", "Jane", " ", "\t", "Doe", " ">>,
    <<"Customer", " ", "Name", ":", " ", "Bob">>,
    <<"DOB", ":", " ", "1990">>,
    <<"Date", " ", "of", " ", "Birth", ":", " ">>,
    <<"Address", ":", " ", "12", " ", "Main", "\n", "Springfield">>,
    <<"Tele", "phone", ":", " ", "777">>,
    <<"Val", "id", ":", " ", "yes">>,
    <<"Email", ":", " ", "a", "@", "b">>,
    <<" ">> }

Pages == {Some(s) : s \in PageTexts} \cup {None}

RECURSIVE SeqsUpTo(_, _)
SeqsUpTo(S, n) ==
  IF n = 0 THEN {<<>>}
  ELSE LET shorter == SeqsUpTo(S, n - 1)
       IN shorter \cup {Append(q, x) : q \in shorter, x \in S}

Pdfs ==
  {[readable |-> FALSE, pages |-> <<>>]}
    \cup {[readable |-> TRUE, pages |-> ps] : ps \in SeqsUpTo(Pages, MaxPages)}

PdfPaths == {[dir |-> "data/input", name |-> "a.pdf"]}

Timestamps == {"2024-01-01 00:00:00"}

\* text += page.extract_text() + "\n", for every page
RECURSIVE PagesText(_)
PagesText(ps) ==
  IF Len(ps) = 0 THEN <<>>
  ELSE Head(ps).v \o <<"\n">> \o PagesText(Tail(ps))

ExtractTextFromPdf(doc) ==
  IF doc.readable /\ \A i \in 1..Len(doc.pages) : ~doc.pages[i].none
  THEN PagesText(doc.pages)
  ELSE <<>>

Provenance == {"source_file", "processed_date"}

(***************************************************************************)
(* process_single_pdf                                                      *)
(***************************************************************************)
\* process_single_pdf without the test of the extracted text
ProcessSinglePdfNoGuard(path, doc, now) ==
  Some(ExtractDataFromText(ExtractTextFromPdf(doc))
         @@ ("source_file" :> <<path.name>>)
         @@ ("processed_date" :> <<now>>))

ProcessSinglePdf(path, doc, now) ==
  LET t == ExtractTextFromPdf(doc)
  IN IF Len(Strip(t)) = 0 THEN None
     ELSE Some(ExtractDataFromText(t)
                 @@ ("source_file" :> <<path.name>>)
                 @@ ("processed_date" :> <<now>>))

(***************************************************************************)
(* The texts extract_data_from_text is called with directly: the empty     *)
(* text and the pages of the readable documents joined by newlines, with   *)
(* no newline at the end (process_single_pdf hands over the same texts     *)
(* with one).                                                              *)
(***************************************************************************)
Texts ==
  {<<>>} \cup
    {SubSeq(PagesText(ps), 1, Len(PagesText(ps)) - 1) :
       ps \in SeqsUpTo({Some(s) : s \in PageTexts}, MaxPages) \ {<<>>}}

(***************************************************************************)
(* analyze_results.py: DataAnalyzer.  A loaded spreadsheet is its columns  *)
(* in order and its records; a cell is the sentinel or a value.            *)
(***************************************************************************)
ColumnNames == {"source_file", "name", "email", "phone", "processed_date"}

NoDuplicates(q) == \A i, j \in 1..Len(q) : q[i] = q[j] => i = j

ColumnLists == {cs \in SeqsUpTo(ColumnNames, MaxColumns) : NoDuplicates(cs)}

Range(q) == {q[i] : i \in 1..Len(q)}

\* the records over the columns cs: a provenance cell is never the sentinel
RecordsOver(cs) ==
  {r \in [Range(cs) -> {NotFound, <<"x">>}] :
     \A c \in Range(cs) \cap Provenance : r[c] # NotFound}

DataFrame(cs, rs) == [columns |-> cs, rows |-> rs]

\* (found_count / total_records) * 100, as the exact fraction num / den.  The
\* float the code computes falls on the same side of 50, 70 and 90 as the
\* fraction and orders two rates of one batch as the fractions are ordered.
Rate(found, total) == [num |-> found * 100, den |-> total]

RateGreater(r, x) == r.num > x * r.den
RateBefore(a, b) == a.num * b.den > b.num * a.den
RateEqual(a, b) == a.num * b.den = b.num * a.den

\* len(self.data[self.data[column] == 'Not Found']): the sentinels, counted
FoundCountSentinels(df, column) ==
  Cardinality({i \in 1..Len(df.rows) : df.rows[i][column] = NotFound})

\* len(self.data[self.data[column] != 'Not Found'])
FoundCount(df, column) ==
  Cardinality({i \in 1..Len(df.rows) : df.rows[i][column] # NotFound})

RECURSIVE SelectSeq2(_, _)
SelectSeq2(q, S) ==
  IF Len(q) = 0 THEN <<>>
  ELSE IF Head(q) \in S THEN SelectSeq2(Tail(q), S)
       ELSE <<Head(q)>> \o SelectSeq2(Tail(q), S)

\* the columns the loop keeps: column not in ['source_file', 'processed_date']
QualityColumns(df) == SelectSeq2(df.columns, Provenance)

\* quality_data, then the quality DataFrame before it is sorted: one row for
\* each kept column, in column order
QualityRows(df) ==
  [i \in 1..Len(QualityColumns(df)) |->
     [Field |-> QualityColumns(df)[i],
      Success_Rate |-> Rate(FoundCount(df, QualityColumns(df)[i]), Len(df.rows)),
      Found |-> FoundCount(df, QualityColumns(df)[i]),
      Total |-> Len(df.rows)]]

RowOrders(n) ==
  {p \in [1..n -> 1..n] : \A i, j \in 1..n : p[i] = p[j] => i = j}

\* a sort by rate, the lowest first
SortValuesAscending(rows) ==
  {[i \in 1..Len(rows) |-> rows[p[i]]] : p \in
     {p \in RowOrders(Len(rows)) :
        \A i, j \in 1..Len(rows) :
          i < j => ~RateBefore(rows[p[i]].Success_Rate, rows[p[j]].Success_Rate)}}

\* quality_df.sort_values('Success_Rate', ascending=False): the sort is the
\* default quicksort of pandas, which is documented as not stable (numpy's
\* introsort keeps the order of equal keys only below 17 elements, and a
\* table of the taxonomy has 22), so every order of the rows with the rates
\* descending is a possible outcome.
SortValues(rows) ==
  {[i \in 1..Len(rows) |-> rows[p[i]]] : p \in
     {p \in RowOrders(Len(rows)) :
        \A i, j \in 1..Len(rows) :
          i < j => ~RateBefore(rows[p[j]].Success_Rate, rows[p[i]].Success_Rate)}}

Raised(exc) == [kind |-> "raised", exc |-> exc]
NoResult == [kind |-> "none"]
Table(rows) == [kind |-> "table", rows |-> rows]

\* analyze_extraction_quality: what it returns or raises
AnalyzeExtractionQuality(fr) ==
  IF fr.none THEN {NoResult}
  ELSE IF Len(QualityColumns(fr.v)) > 0 /\ Len(fr.v.rows) = 0
       THEN {Raised("ZeroDivisionError")}     \* found_count / total_records
       ELSE IF Len(QualityColumns(fr.v)) = 0
            THEN {Raised("IndexError")}       \* quality_df.iloc[0] of an empty table
            ELSE {Table(rows) : rows \in SortValues(QualityRows(fr.v))}

(***************************************************************************)
(* create_quality_visualization: the performance categories                *)
(***************************************************************************)
\* the comparisons with >= in place of >
BucketInclusive(rate) ==
  IF rate.num >= 90 * rate.den THEN "Excellent"
  ELSE IF rate.num >= 70 * rate.den THEN "Good"
       ELSE IF rate.num >= 50 * rate.den THEN "Fair"
            ELSE "Poor"

Bucket(rate) ==
  IF RateGreater(rate, 90) THEN "Excellent"
  ELSE IF RateGreater(rate, 70) THEN "Good"
       ELSE IF RateGreater(rate, 50) THEN "Fair"
            ELSE "Poor"

BucketNames == {"Excellent", "Good", "Fair", "Poor"}

Categories(rows) ==
  [b \in BucketNames |->
     Cardinality({i \in 1..Len(rows) : Bucket(rows[i].Success_Rate) = b})]

\* a quality table handed to the visualization: the rows of a batch of n
\* records, of which ks[i] hold field i
QualityTable(n, ks) ==
  [i \in 1..Len(ks) |->
     [Field |-> Fields[i], Success_Rate |-> Rate(ks[i], n), Found |-> ks[i], Total |-> n]]

NoCategories == [b \in BucketNames |-> 0]

ConverterInit ==
  /\ op = "init"
  /\ pdf = [readable |-> FALSE, pages |-> <<>>]
  /\ text = <<>>
  /\ extracted_data = None
  /\ data = None

AnalyzerInit ==
  /\ aop = "init"
  /\ frame = None
  /\ quality = NoResult
  /\ categories = NoCategories

ReportInit ==
  /\ df_columns = <<>>
  /\ ordered_columns = <<>>
  /\ saved = "not called"

MinerInit ==
  /\ insights = NoResult
  /\ displayed = <<>>

CliInit ==
  /\ entry = "none"
  /\ cli = "init"
  /\ directory = [exists |-> FALSE, files |-> {}]
  /\ pdf_files = <<>>
  /\ main_pdf_files = <<>>
  /\ answer = <<>>
  /\ prompts = 0
  /\ selected = None
  /\ selected_pdf = None
  /\ returned = "running"

Init == ConverterInit /\ AnalyzerInit /\ ReportInit /\ MinerInit /\ CliInit

\* A PDFConverter holds nothing but the taxonomy, which no method changes, and
\* main converts one document and returns: a run is one call from the state
\* after construction.
CallExtractDataFromText ==
  /\ op = "init"
  /\ \E t \in Texts :
       /\ op' = "extract_data_from_text"
       /\ text' = t
       /\ extracted_data' = Some(ExtractDataFromText(t))
       /\ UNCHANGED <<pdf, data>>
       /\ UNCHANGED analyzer_vars
       /\ UNCHANGED <<report_vars, miner_vars, cli_vars>>

CallProcessSinglePdf ==
  /\ op = "init"
  /\ \E path \in PdfPaths, doc \in Pdfs, now \in Timestamps :
       LET result == ProcessSinglePdf(path, doc, now)
       IN /\ op' = "process_single_pdf"
          /\ pdf' = doc
          /\ text' = ExtractTextFromPdf(doc)
          /\ data' = result
          /\ extracted_data' =
               IF data'.none THEN extracted_data
               ELSE Some([f \in DOMAIN data'.v \ Provenance |-> data'.v[f]])
          /\ UNCHANGED analyzer_vars
          /\ UNCHANGED <<report_vars, miner_vars, cli_vars>>

Next == CallExtractDataFromText \/ CallProcessSinglePdf

Spec == Init /\ [][Next]_vars

(***************************************************************************)
(* The analyzer: main of analyze_results.py constructs a DataAnalyzer,     *)
(* loads the spreadsheet, analyzes it and draws the result.                *)
(***************************************************************************)
\* load_data: the spreadsheet is read, or the read fails and data stays None
LoadData ==
  /\ aop = "init"
  /\ \/ frame' = None
     \/ \E cs \in ColumnLists, m \in 0..MaxRecords :
          \E rs \in [1..m -> RecordsOver(cs)] : frame' = Some(DataFrame(cs, rs))
  /\ aop' = "load_data"
  /\ UNCHANGED <<quality, categories>>
  /\ UNCHANGED converter_vars
  /\ UNCHANGED <<report_vars, miner_vars, cli_vars>>

CallAnalyzeExtractionQuality ==
  /\ aop \in {"init", "load_data"}
  /\ \E result \in AnalyzeExtractionQuality(frame) :
       /\ quality' = result
       /\ aop' = "analyze_extraction_quality"
  /\ UNCHANGED <<frame, categories>>
  /\ UNCHANGED converter_vars
  /\ UNCHANGED <<report_vars, miner_vars, cli_vars>>

\* main draws the table that analyze_extraction_quality returned
CallCreateQualityVisualization ==
  /\ aop = "analyze_extraction_quality"
  /\ quality.kind = "table"
  /\ categories' = Categories(quality.rows)
  /\ aop' = "create_quality_visualization"
  /\ UNCHANGED <<frame, quality>>
  /\ UNCHANGED converter_vars
  /\ UNCHANGED <<report_vars, miner_vars, cli_vars>>

AnalyzerNext ==
  LoadData \/ CallAnalyzeExtractionQuality \/ CallCreateQualityVisualization

SpecAnalyzer == Init /\ [][AnalyzerNext]_vars

\* create_quality_visualization called with a quality table of any batch
CreateQualityVisualizationOf ==
  /\ aop = "init"
  /\ \E n \in 1..MaxTotal, m \in 0..MaxFields :
       \E ks \in [1..m -> 0..n] :
         /\ quality' = Table(QualityTable(n, ks))
         /\ categories' = Categories(QualityTable(n, ks))
  /\ aop' = "create_quality_visualization"
  /\ UNCHANGED frame
  /\ UNCHANGED converter_vars
  /\ UNCHANGED <<report_vars, miner_vars, cli_vars>>

VisualizationNext == CreateQualityVisualizationOf

SpecVisualization == Init /\ [][VisualizationNext]_vars

(***************************************************************************)
(* save_to_excel: the order of the columns of the sheet                    *)
(***************************************************************************)
priority_columns ==
  << "source_file", "name", "email", "phone", "position",
     "customer_name", "product", "rating", "processed_date" >>

\* all_columns.remove(col): the list without the first occurrence of col
RECURSIVE Remove(_, _)
Remove(q, col) ==
  IF Len(q) = 0 THEN <<>>
  ELSE IF Head(q) = col THEN Tail(q)
       ELSE <<Head(q)>> \o Remove(Tail(q), col)

\* for col in priority_columns: if col in all_columns: append it and remove
\* it; then ordered_columns.extend(all_columns)
RECURSIVE OrderLoop(_, _, _)
OrderLoop(priority, all_columns, ordered) ==
  IF Len(priority) = 0 THEN ordered \o all_columns
  ELSE IF Head(priority) \in Range(all_columns)
       THEN OrderLoop(Tail(priority), Remove(all_columns, Head(priority)),
                      Append(ordered, Head(priority)))
       ELSE OrderLoop(Tail(priority), all_columns, ordered)

\* an ordering that appends the priority columns and removes none of them
\* from the list that is appended after them
RECURSIVE OrderLoopNoRemove(_, _, _)
OrderLoopNoRemove(priority, all_columns, ordered) ==
  IF Len(priority) = 0 THEN ordered \o all_columns
  ELSE IF Head(priority) \in Range(all_columns)
       THEN OrderLoopNoRemove(Tail(priority), all_columns, Append(ordered, Head(priority)))
       ELSE OrderLoopNoRemove(Tail(priority), all_columns, ordered)

OrderedColumnsNoRemove(all_columns) == OrderLoopNoRemove(priority_columns, all_columns, <<>>)

OrderedColumns(all_columns) == OrderLoop(priority_columns, all_columns, <<>>)

\* The columns of pd.DataFrame(data): the keys of the records, each once.
\* main hands over one record, with the fields of the taxonomy and the two
\* provenance attributes after them.
ColumnIds ==
  {"source_file", "name", "email", "rating", "processed_date", "custom_x", "address"}

MainColumns == Fields \o <<"source_file", "processed_date">>

\* save_to_excel: no data returns False; the sheet is written with the
\* ordered columns, and a failure of the writer is caught and returns False
CallSaveToExcel ==
  /\ saved = "not called"
  /\ \/ /\ saved' = "False"
        /\ UNCHANGED <<df_columns, ordered_columns>>
     \/ \E n \in 0..MaxOrdered, written \in BOOLEAN :
          \E cs \in [1..n -> ColumnIds] :
            /\ NoDuplicates(cs)
            /\ df_columns' = cs
            /\ ordered_columns' = OrderedColumns(cs)
            /\ saved' = IF written THEN "True" ELSE "False"
     \/ \E written \in BOOLEAN :
          /\ df_columns' = MainColumns
          /\ ordered_columns' = OrderedColumns(MainColumns)
          /\ saved' = IF written THEN "True" ELSE "False"
  /\ UNCHANGED converter_vars
  /\ UNCHANGED analyzer_vars
  /\ UNCHANGED <<miner_vars, cli_vars>>

ReportNext == CallSaveToExcel

SpecReport == Init /\ [][ReportNext]_vars

(***************************************************************************)
(* analyze_data_patterns.  A cell of the loaded spreadsheet is a string    *)
(* (a sequence of atoms; a run of digits is one atom) or the float nan     *)
(* that read_excel gives for an empty or "N/A" cell.                       *)
(***************************************************************************)
\* the float nan: not a str, not equal to 'Not Found', and str() of it has
\* neither a slash nor an @ nor a digit
NaN == <<"nan">>

\* the atoms that are runs of decimal digits, and their value
DecimalAtoms == {"0", "1", "2", "3", "4", "5", "9", "10"}

DecimalValue(a) ==
  CASE a = "0" -> 0 [] a = "1" -> 1 [] a = "2" -> 2 [] a = "3" -> 3
    [] a = "4" -> 4 [] a = "5" -> 5 [] a = "9" -> 9 [] a = "10" -> 10

\* a character for which str.isdigit() is true and that int() rejects
Superscript == "^2"   \* stands for the one character SUPERSCRIPT TWO

\* str.split(): the runs of atoms that are no white space
RECURSIVE Split(_)
Split(s) ==
  IF Len(s) = 0 THEN <<>>
  ELSE IF IsSpace(s[1]) THEN Split(Tail(s))
       ELSE LET n == Run(s, 1, "[^\\s\\n]")
            IN <<SubSeq(s, 1, n)>> \o Split(SubSeq(s, n + 1, Len(s)))

\* s.isdigit()
IsDigit(tok) ==
  /\ Len(tok) > 0
  /\ \A i \in 1..Len(tok) : tok[i] \in DecimalAtoms \cup {Superscript}

\* int(s): white space around the number and a sign before it are accepted;
\* None stands for ValueError
ParseInt(s) ==
  LET t == Strip(s)
  IN IF Len(t) = 1 /\ t[1] \in DecimalAtoms THEN Some(DecimalValue(t[1]))
     ELSE IF Len(t) = 2 /\ t[1] = "+" /\ t[2] \in DecimalAtoms
          THEN Some(DecimalValue(t[2]))
          ELSE IF Len(t) = 2 /\ t[1] = "-" /\ t[2] \in DecimalAtoms
               THEN Some(0 - DecimalValue(t[2]))
               ELSE None

RECURSIVE Filter(_, _)
Filter(q, S) ==
  IF Len(q) = 0 THEN <<>>
  ELSE IF Head(q) \in S THEN <<Head(q)>> \o Filter(Tail(q), S)
       ELSE Filter(Tail(q), S)

\* the tokens of exp.split() for which s.isdigit() holds
DigitTokens(exp) == Filter(Split(exp), {tok \in Range(Split(exp)) : IsDigit(tok)})

\* The body of the try block of the experience loop: what the value adds to
\* numeric_exp.  nan has no split (AttributeError), int() of a digit token
\* may fail (ValueError) before numbers is built; both are swallowed.
ExperienceNumber(exp) ==
  IF exp = NaN THEN None
  ELSE IF \E i \in 1..Len(DigitTokens(exp)) : ParseInt(DigitTokens(exp)[i]).none THEN None
       ELSE IF Len(DigitTokens(exp)) = 0 THEN None
            ELSE ParseInt(DigitTokens(exp)[1])

\* the place of the first atom a of s, 0 if there is none
RECURSIVE Find(_, _, _)
Find(s, a, i) ==
  IF i > Len(s) THEN 0 ELSE IF s[i] = a THEN i ELSE Find(s, a, i + 1)

\* s.split(a)[0] and s.split(a)[1], for s that holds a
SplitHead(s, a) == SubSeq(s, 1, Find(s, a, 1) - 1)

SplitSecond(s, a) ==
  LET rest == SubSeq(s, Find(s, a, 1) + 1, Len(s))
  IN IF Find(rest, a, 1) = 0 THEN rest ELSE SplitHead(rest, a)

\* The body of the try block of the rating loop: what the value adds to
\* numeric_ratings; str(nan) is "nan", of which int() fails.
RatingNumber(rating) ==
  IF Find(rating, "/", 1) > 0 THEN ParseInt(SplitHead(rating, "/"))
  ELSE ParseInt(rating)

\* email.split('@')[1] if '@' in str(email) else 'unknown'
Domain(email) ==
  IF Find(email, "@", 1) > 0 THEN SplitSecond(email, "@") ELSE <<"unknown">>

\* the values of a column that are not the sentinel, in the order of the rows
ColumnValues(df, column) ==
  LET kept == {i \in 1..Len(df.rows) : df.rows[i][column] # NotFound}
      Nth(k) == CHOOSE i \in kept : Cardinality({j \in kept : j < i}) = k - 1
  IN [k \in 1..Cardinality(kept) |-> df.rows[Nth(k)][column]]

\* the numbers a loop collects: the values of the options that are not None
RECURSIVE Collect(_)
Collect(options) ==
  IF Len(options) = 0 THEN <<>>
  ELSE IF Head(options).none THEN Collect(Tail(options))
       ELSE <<Head(options).v>> \o Collect(Tail(options))

RECURSIVE Sum(_)
Sum(q) == IF Len(q) = 0 THEN 0 ELSE Head(q) + Sum(Tail(q))

\* f"{np.mean(q):.1f}", in tenths: the mean rounded to the nearest tenth.  A
\* mean that lies half way between two tenths has the denominator 4 (for
\* fewer than 20 numbers), so the float is the mean exactly and the format
\* rounds it to the even tenth.
MeanTenths(q) ==
  LET n == 20 * Sum(q) + Len(q)
      d == 2 * Len(q)
  IN IF n % d = 0 /\ (n \div d) % 2 = 1 THEN (n \div d) - 1 ELSE n \div d

\* value_counts(): the values with their counts; index[0] is one of the
\* most frequent values (nan is not counted)
Count(values, v) == Cardinality({i \in 1..Len(values) : values[i] = v})

MostCommon(values) ==
  {v \in Range(values) \ {NaN} :
     \A w \in Range(values) \ {NaN} : Count(values, w) <= Count(values, v)}

Insight(scan, value, n) == [scan |-> scan, value |-> value, n |-> n]

\* the four scans: the insights each appends, as the set of possible outcomes
PositionInsights(df) ==
  IF "position" \in Range(df.columns) /\ MostCommon(ColumnValues(df, "position")) # {}
  THEN {<<Insight("position", v, Count(ColumnValues(df, "position"), v))>> :
          v \in MostCommon(ColumnValues(df, "position"))}
  ELSE {<<>>}

numeric_exp(df) ==
  Collect([i \in 1..Len(ColumnValues(df, "experience")) |->
             ExperienceNumber(ColumnValues(df, "experience")[i])])

\* an experience scan that reports a mean of 0.0 when no value gave a number
ExperienceInsightsZeroValue(df) ==
  IF "experience" \in Range(df.columns) /\ Len(numeric_exp(df)) > 0
  THEN {<<Insight("experience", <<>>, MeanTenths(numeric_exp(df)))>>}
  ELSE {<<Insight("experience", <<>>, 0)>>}

ExperienceInsights(df) ==
  IF "experience" \in Range(df.columns) /\ Len(numeric_exp(df)) > 0
  THEN {<<Insight("experience", <<>>, MeanTenths(numeric_exp(df)))>>}
  ELSE {<<>>}

Domains(df) ==
  [i \in 1..Len(ColumnValues(df, "email")) |-> Domain(ColumnValues(df, "email")[i])]

EmailInsights(df) ==
  IF "email" \in Range(df.columns) /\ Len(ColumnValues(df, "email")) > 0
  THEN {<<Insight("email", v, Count(Domains(df), v))>> : v \in MostCommon(Domains(df))}
  ELSE {<<>>}

numeric_ratings(df) ==
  Collect([i \in 1..Len(ColumnValues(df, "rating")) |->
             RatingNumber(ColumnValues(df, "rating")[i])])

RatingInsights(df) ==
  IF "rating" \in Range(df.columns) /\ Len(numeric_ratings(df)) > 0
  THEN {<<Insight("rating", <<>>, MeanTenths(numeric_ratings(df)))>>}
  ELSE {<<>>}

InsightList(items) == [kind |-> "list", items |-> items]

NoPatterns == "No specific patterns detected in current dataset"

\* analyze_data_patterns: what it returns or raises.  self.data is None
\* before load_data has succeeded, and None has no columns.
AnalyzeDataPatterns(fr) ==
  IF fr.none THEN {Raised("AttributeError")}
  ELSE {InsightList(a \o b \o c \o d) :
          a \in PositionInsights(fr.v), b \in ExperienceInsights(fr.v),
          c \in EmailInsights(fr.v), d \in RatingInsights(fr.v)}

\* what it prints under the heading: a line for each insight, or one line
\* that says there is none
Display(result) ==
  IF result.kind # "list" THEN <<>>
  ELSE IF Len(result.items) = 0 THEN <<NoPatterns>>
       ELSE [i \in 1..Len(result.items) |-> result.items[i].scan]

\* The batches handed to the miner: records of job applications and of
\* surveys, seen through the columns the spreadsheet has.
ScanColumns == <<"position", "experience", "email", "rating">>

Application(position, experience, email, rating) ==
  [position |-> position, experience |-> experience, email |-> email, rating |-> rating]

MinerRecords ==
  { Application(<<"Engineer">>, <<"5", " ", "years">>, <<"a", "@", "x">>, <<"4", "/", "5">>),
    Application(<<"Engineer">>, NaN, <<"b", "@", "x">>, <<"2">>),
    Application(<<"Analyst">>, <<"3", " ", "yrs">>, <<"c", "@", "y">>, <<"9", "/", "10">>),
    Application(NotFound, <<"ten", " ", "years">>, <<"nobody">>, <<"Excellent">>),
    Application(NaN, <<"2", " ", "years", " ", Superscript>>, NaN, NaN),
    Application(<<"Analyst">>, <<"over", " ", "4", " ", "or", " ", "5">>, NotFound, <<"good", "/", "5">>),
    Application(NotFound, NotFound, NotFound, NotFound) }

\* load_data for the miner: the spreadsheet is read, or the read fails
LoadBatch ==
  /\ aop = "init"
  /\ \/ frame' = None
     \/ \E S \in SUBSET Range(ScanColumns), m \in 0..MaxBatch :
          \E rs \in [1..m -> MinerRecords] :
            frame' = Some(DataFrame(Filter(ScanColumns, S),
                                    [i \in 1..m |-> [c \in S |-> rs[i][c]]]))
  /\ aop' = "load_data"
  /\ UNCHANGED <<quality, categories>>
  /\ UNCHANGED converter_vars
  /\ UNCHANGED <<report_vars, miner_vars, cli_vars>>

CallAnalyzeDataPatterns ==
  /\ aop = "load_data"
  /\ \E result \in AnalyzeDataPatterns(frame) :
       /\ insights' = result
       /\ displayed' = Display(result)
  /\ aop' = "analyze_data_patterns"
  /\ UNCHANGED <<frame, quality, categories>>
  /\ UNCHANGED converter_vars
  /\ UNCHANGED <<report_vars, cli_vars>>

MinerNext == LoadBatch \/ CallAnalyzeDataPatterns

SpecMiner == Init /\ [][MinerNext]_vars

(***************************************************************************)
(* The command line: run_converter of run_project.py and main of           *)
(* pdf_converter.py.  A step runs a script up to its next input().  The    *)
(* scripts are started in the project root, so that "data/input" is the    *)
(* directory run_converter lists.                                          *)
(***************************************************************************)
DocNames == <<"a.pdf", "b.pdf", "c.pdf", "d.pdf">>

Docs == {DocNames[i] : i \in 1..MaxDocs}

\* sorted(input_dir.iterdir()), the PDF files of it
Sorted(S) == Filter(DocNames, S)

\* os.listdir(pdf_dir): the files in an order the file system chooses
Listings(S) == {q \in [1..Cardinality(S) -> S] : NoDuplicates(q)}

\* the lines a user types
Inputs ==
  { <<>>, <<" ">>, <<"abc">>, <<"1", ".", "5">>, <<"-", "1">>, <<"0">>,
    <<"1">>, <<"2">>, <<" ", "2">>, <<"3">>, <<"4">> }

\* main of pdf_converter.py up to its prompt: without the directory or
\* without a PDF file in it, it prints a message and returns
MainToPrompt(finish) ==
  IF ~directory'.exists \/ directory'.files = {}
  THEN /\ cli' = "done"
       /\ returned' = finish
       /\ main_pdf_files' = main_pdf_files
  ELSE /\ cli' = "main:input"
       /\ returned' = returned
       /\ main_pdf_files' \in Listings(directory'.files)

\* python pdf_converter.py
StartPdfConverter ==
  /\ cli = "init"
  /\ entry' = "pdf_converter"
  /\ \E exists \in BOOLEAN, S \in SUBSET Docs :
       directory' = [exists |-> exists, files |-> IF exists THEN S ELSE {}]
  /\ MainToPrompt("running")
  /\ UNCHANGED <<pdf_files, answer, prompts, selected, selected_pdf>>
  /\ UNCHANGED <<converter_vars, analyzer_vars, report_vars, miner_vars>>

\* choice = int(input(...)): a line that is no integer or out of range makes
\* main print a message and return; module.main() in run_converter then
\* returns, and run_converter returns True
MainInput ==
  /\ cli = "main:input"
  /\ \E line \in Inputs :
       /\ answer' = line
       /\ selected_pdf' =
            IF ~ParseInt(line).none /\ ParseInt(line).v \in 1..Len(main_pdf_files)
            THEN Some(main_pdf_files[ParseInt(line).v])
            ELSE selected_pdf
  /\ cli' = "done"
  /\ returned' = IF entry = "run_project" THEN "True" ELSE returned
  /\ UNCHANGED <<entry, directory, pdf_files, main_pdf_files, prompts, selected>>
  /\ UNCHANGED <<converter_vars, analyzer_vars, report_vars, miner_vars>>

\* run_converter up to its prompt
StartRunConverter ==
  /\ cli = "init"
  /\ entry' = "run_project"
  /\ \E exists \in BOOLEAN, S \in SUBSET Docs :
       directory' = [exists |-> exists, files |-> IF exists THEN S ELSE {}]
  /\ IF ~directory'.exists
     THEN cli' = "done" /\ returned' = "False" /\ UNCHANGED <<pdf_files, prompts>>
     ELSE IF directory'.files = {}
          THEN cli' = "done" /\ returned' = "True" /\ UNCHANGED <<pdf_files, prompts>>
          ELSE /\ cli' = "run_converter:input"
               /\ pdf_files' = Sorted(directory'.files)
               /\ prompts' = 1
               /\ returned' = returned
  /\ UNCHANGED <<main_pdf_files, answer, selected, selected_pdf>>
  /\ UNCHANGED <<converter_vars, analyzer_vars, report_vars, miner_vars>>

\* the line is one the loop of run_converter accepts
Accepted(line) ==
  /\ Len(Strip(line)) > 0
  /\ ~ParseInt(Strip(line)).none
  /\ ParseInt(Strip(line)).v \in 1..Len(pdf_files)

\* The while loop of run_converter: a line that is empty, no integer or out
\* of range shows the prompt again.  After the break the module is loaded
\* and module.main(str(selected)) is called; main takes no argument, the
\* call raises TypeError, and module.main() runs main up to its prompt.
RunConverterInput ==
  /\ cli = "run_converter:input"
  /\ \E line \in Inputs :
       /\ answer' = line
       /\ IF Accepted(line)
          THEN /\ selected' = Some(pdf_files[ParseInt(Strip(line)).v])
               /\ prompts' = prompts
               /\ directory' = directory
               /\ MainToPrompt("True")
          ELSE /\ prompts < MaxPrompts
               /\ prompts' = prompts + 1
               /\ UNCHANGED <<cli, directory, main_pdf_files, selected, returned>>
  /\ UNCHANGED <<entry, pdf_files, selected_pdf>>
  /\ UNCHANGED <<converter_vars, analyzer_vars, report_vars, miner_vars>>

CliNext == StartPdfConverter \/ MainInput \/ StartRunConverter \/ RunConverterInput

SpecCli == Init /\ [][CliNext]_vars

(***************************************************************************)
(* What the claims speak of, stated apart from the loop of the recognizer. *)
(***************************************************************************)
Ran == op \in {"extract_data_from_text", "process_single_pdf"} /\ ~extracted_data.none

Record == extracted_data.v

Matches(t, pat) == Len(Search(t, pat)) > 0

\* the rules of field f that match the text somewhere
MatchingRules(t, f) ==
  {i \in 1..Len(extraction_patterns[f]) : Matches(t, extraction_patterns[f][i])}

NoRuleMatches(t, f) ==
  \A i \in 1..Len(extraction_patterns[f]) : ~Matches(t, extraction_patterns[f][i])

\* the first of them in declaration order
FirstMatchingRule(t, f) ==
  CHOOSE i \in 1..Len(extraction_patterns[f]) :
    /\ Matches(t, extraction_patterns[f][i])
    /\ \A j \in 1..(i - 1) : ~Matches(t, extraction_patterns[f][j])

\* what group 1 of rule i of field f holds
RawCapture(t, f, i) == Group1(t, Search(t, extraction_patterns[f][i]))

\* every white space run made one space, then trimmed
CollapsedThenTrimmed(s) == Strip(Collapse(s))

\* C1: the record of extract_data_from_text has every field id of the
\* taxonomy as a key, once, and no other key; each value is the sentinel
\* "Not Found" or a string made of characters of the text.
C1_TotalCoverage ==
  Ran =>
    /\ DOMAIN Record = FieldSet
    /\ Cardinality(FieldSet) = Len(Fields)
    /\ \A f \in FieldSet :
         \/ Record[f] = NotFound
         \/ /\ Len(Record[f]) > 0
            /\ \A i \in 1..Len(Record[f]) :
                 Record[f][i] = " " \/ \E j \in 1..Len(text) : text[j] = Record[f][i]

C1_Witness ==
  /\ Ran
  /\ \E f \in FieldSet : Record[f] # NotFound
  /\ \E f \in FieldSet : Record[f] = NotFound

\* C2 as stated: the value of a field is the (normalized) capture group of
\* the first rule, in declaration order, that matches the text, and the
\* sentinel if no rule matches.
C2_FirstMatchIsValue ==
  Ran =>
    \A f \in FieldSet :
      IF NoRuleMatches(text, f)
      THEN Record[f] = NotFound
      ELSE Record[f] = CollapsedThenTrimmed(RawCapture(text, f, FirstMatchingRule(text, f)))

\* C2 as amended: the value of a field is decided by the first rule, in
\* declaration order, that matches the text: it is the normalized capture
\* group of that rule, or the sentinel when that is empty; later rules never
\* contribute, and the field is the sentinel if no rule matches.
C2_FirstMatchDecides ==
  Ran =>
    \A f \in FieldSet :
      IF NoRuleMatches(text, f)
      THEN Record[f] = NotFound
      ELSE \/ /\ CollapsedThenTrimmed(RawCapture(text, f, FirstMatchingRule(text, f))) = <<>>
              /\ Record[f] = NotFound
           \/ /\ Record[f] # <<>>
              /\ Record[f] = CollapsedThenTrimmed(RawCapture(text, f, FirstMatchingRule(text, f)))

\* two rules of a field match with different captures, the first one is stored
C2_Witness ==
  /\ Ran
  /\ \E f \in FieldSet :
       /\ Cardinality(MatchingRules(text, f)) >= 2
       /\ Record[f] # NotFound
       /\ \E j \in MatchingRules(text, f) :
            /\ j > FirstMatchingRule(text, f)
            /\ CollapsedThenTrimmed(RawCapture(text, f, j)) # Record[f]
            /\ CollapsedThenTrimmed(RawCapture(text, f, j)) # <<>>

\* C3 is about the first rule of the address field, Address:
AddressRule == extraction_patterns["address"][1]

\* words of the input alphabet with an initial capital and lower case after
\* it, and words in lower case
CapWords == {"Name", "Customer", "Date", "Birth", "Address", "Main", "Springfield",
             "Tele", "Val", "Email", "Jane", "Doe", "Bob"}
LowerWords == {"of", "phone", "id", "a", "b", "yes"}

\* the line that begins after the newline at q begins with an
\* initial-capitalized word run immediately followed by a colon
RECURSIVE LowerRunThenColon(_, _)
LowerRunThenColon(t, p) ==
  /\ p <= Len(t)
  /\ \/ t[p] = ":"
     \/ t[p] \in LowerWords /\ LowerRunThenColon(t, p + 1)

NewLabelAfter(t, q) ==
  /\ q + 1 <= Len(t)
  /\ t[q] = "\n"
  /\ t[q + 1] \in CapWords
  /\ LowerRunThenColon(t, q + 2)

\* where the address that starts at k stops: at the newline before the first
\* later line that looks like a new label, or at the end of the text
AddressStop(t, k) ==
  CHOOSE q \in k..(Len(t) + 1) :
    /\ q = Len(t) + 1 \/ NewLabelAfter(t, q)
    /\ \A r \in k..(q - 1) : ~NewLabelAfter(t, r)

\* C3: the address is all the lines after the Address: label up to, and not
\* including, the first later line that begins a new label, or up to the end
\* of the text; an address of several lines is captured with all its lines.
C3_AddressAllLines ==
  (Ran /\ Matches(text, AddressRule)) =>
    LET k == Search(text, AddressRule)[1]
        c == CollapsedThenTrimmed(SubSeq(text, k, AddressStop(text, k) - 1))
    IN Record["address"] = IF c = <<>> THEN NotFound ELSE c

\* f's label stands at the head of the line: some rule of f matches its label
\* from the first character of the line, up to the colon
RECURSIVE SplitLines(_)
SplitLines(t) ==
  IF \A i \in 1..Len(t) : t[i] # "\n" THEN <<t>>
  ELSE LET n == Run(t, 1, "[^\\n]")
       IN <<SubSeq(t, 1, n)>> \o SplitLines(SubSeq(t, n + 2, Len(t)))

CarriesLabel(line, f) ==
  \E i \in 1..Len(extraction_patterns[f]) :
    Len(LabelEnds(line, extraction_patterns[f][i].label, 1)) > 0

LacksLabel(t, f) ==
  \A n \in 1..Len(SplitLines(t)) : ~CarriesLabel(SplitLines(t)[n], f)

\* C4: a field none of whose labels is the label of a line of the text is
\* "Not Found"; a longer label or word that holds the label inside it
\* (Customer Name:, Telephone:, Valid:) does not make the field found.
C4_NotFoundWithoutLabel ==
  Ran => \A f \in FieldSet : LacksLabel(text, f) => Record[f] = NotFound

\* C5: a stored value that is not the sentinel has no newline or tab, no two
\* white space characters in a row and no white space at either end, and is
\* the captured span with every white space run made one space, then trimmed.
C5_ValuesNormalized ==
  Ran =>
    \A f \in FieldSet :
      Record[f] # NotFound =>
        /\ \A i \in 1..Len(Record[f]) : Record[f][i] # "\n" /\ Record[f][i] # "\t"
        /\ \A i \in 1..(Len(Record[f]) - 1) :
             ~(IsSpace(Record[f][i]) /\ IsSpace(Record[f][i + 1]))
        /\ ~IsSpace(Record[f][1]) /\ ~IsSpace(Record[f][Len(Record[f])])
        /\ Record[f] = CollapsedThenTrimmed(RawCapture(text, f, FirstMatchingRule(text, f)))

\* a captured span with a tab, a run of two white space characters and a
\* trailing space was stored
C5_Witness ==
  /\ Ran
  /\ Record["name"] = <<"Jane", " ", "Doe">>
  /\ LET raw == RawCapture(text, "name", FirstMatchingRule(text, "name"))
     IN /\ \E i \in 1..(Len(raw) - 1) : IsSpace(raw[i]) /\ raw[i + 1] = "\t"
        /\ IsSpace(raw[Len(raw)])

\* the collaborator gave no usable text
NoUsableText == op = "process_single_pdf" /\ \A i \in 1..Len(text) : IsSpace(text[i])

\* C6 as stated: when the collaborator yields no usable text, processing
\* the document returns a record whose every field is "Not Found", not an
\* absent record.
C6_AllSentinelRecord ==
  NoUsableText => ~data.none /\ \A f \in FieldSet : data.v[f] = NotFound

\* C6 as amended: when the collaborator yields no usable text (also after an
\* extraction error inside it), processing the document returns the absent
\* record and does not run the recognizer; a record is returned exactly when
\* there is usable text, and then it has every field of the taxonomy.
C6_AbsentRecord ==
  op = "process_single_pdf" =>
    /\ NoUsableText <=> data.none
    /\ ~data.none => FieldSet \subseteq DOMAIN data.v

\* a document whose pages hold white space only was processed
C6_Witness ==
  /\ NoUsableText
  /\ data.none
  /\ pdf.readable
  /\ Len(text) > 1

(***************************************************************************)
(* The quality analysis.                                                   *)
(***************************************************************************)
Analyzed == aop = "analyze_extraction_quality" /\ ~frame.none

Batch == frame.v.rows

\* the columns of the spreadsheet that are no provenance attribute
DataColumns == Range(frame.v.columns) \ Provenance

\* the records of the batch that hold field f
Holding(f) == {i \in 1..Len(Batch) : Batch[i][f] # NotFound}

\* the rows of the quality table that speak of field f
RowsOf(f) == {i \in 1..Len(quality.rows) : quality.rows[i].Field = f}

\* C7: for a batch of n >= 1 records, every field but source_file and
\* processed_date has exactly one entry, with total n, found k (the records
\* whose value is not "Not Found") and rate 100 * k / n; the two provenance
\* attributes have no entry.
C7_RatePerField ==
  (Analyzed /\ Len(Batch) >= 1 /\ DataColumns # {}) =>
    /\ quality.kind = "table"
    /\ \A f \in DataColumns :
         /\ Cardinality(RowsOf(f)) = 1
         /\ \A i \in RowsOf(f) :
              /\ quality.rows[i].Total = Len(Batch)
              /\ quality.rows[i].Found = Cardinality(Holding(f))
              /\ quality.rows[i].Success_Rate.num * Len(Batch)
                   = 100 * Cardinality(Holding(f)) * quality.rows[i].Success_Rate.den
    /\ \A i \in 1..Len(quality.rows) : quality.rows[i].Field \in DataColumns

\* a batch of two records with a field held by one of them, and both
\* provenance columns left out of the table
C7_Witness ==
  /\ Analyzed
  /\ quality.kind = "table"
  /\ Len(Batch) = 2
  /\ Provenance \cap Range(frame.v.columns) # {}
  /\ \E f \in DataColumns : Cardinality(Holding(f)) = 1

\* C8: for an empty batch with at least one field column the analysis does
\* not fail, and every entry has rate 0; in every case 0 <= rate <= 100.
C8_EmptyBatchRateZero ==
  /\ (Analyzed /\ Len(Batch) = 0 /\ DataColumns # {}) =>
       /\ quality.kind = "table"
       /\ \A i \in 1..Len(quality.rows) : quality.rows[i].Success_Rate.num = 0
  /\ (Analyzed /\ quality.kind = "table") =>
       \A i \in 1..Len(quality.rows) :
         /\ quality.rows[i].Success_Rate.num >= 0
         /\ quality.rows[i].Success_Rate.num <= 100 * quality.rows[i].Success_Rate.den

\* the place of field f in the columns of the spreadsheet
ColumnIndex(f) == CHOOSE i \in 1..Len(frame.v.columns) : frame.v.columns[i] = f

RowRate(i) == quality.rows[i].Success_Rate

Descending ==
  \A i, j \in 1..Len(quality.rows) : i < j => ~RateBefore(RowRate(j), RowRate(i))

\* C9 as stated: the table is ordered by rate descending, and fields of
\* equal rate stand in their column order.
C9_StableDescending ==
  (Analyzed /\ quality.kind = "table") =>
    /\ Descending
    /\ \A i, j \in 1..Len(quality.rows) :
         (i < j /\ RateEqual(RowRate(i), RowRate(j))) =>
           ColumnIndex(quality.rows[i].Field) < ColumnIndex(quality.rows[j].Field)

\* C9 as amended: the table is ordered by rate descending and holds every
\* field once; the order of fields of equal rate is not fixed, so the first
\* row is one of the fields of the highest rate and the last row one of the
\* fields of the lowest rate.
C9_Descending ==
  (Analyzed /\ quality.kind = "table") =>
    /\ Descending
    /\ \A f \in DataColumns : Cardinality(RowsOf(f)) = 1
    /\ \A i \in 1..Len(quality.rows) :
         /\ ~RateBefore(RowRate(i), RowRate(1))
         /\ ~RateBefore(RowRate(Len(quality.rows)), RowRate(i))

\* a table of three fields with two different rates and a tie
C9_Witness ==
  /\ Analyzed
  /\ quality.kind = "table"
  /\ Len(quality.rows) = 3
  /\ RateBefore(RowRate(1), RowRate(3))
  /\ RateEqual(RowRate(1), RowRate(2)) \/ RateEqual(RowRate(2), RowRate(3))

\* the rows of the drawn table whose rate r = 100 * Found / Total satisfies
\* lo < r <= hi, in whole numbers
RowsBetween(lo, hi) ==
  {i \in 1..Len(quality.rows) :
     /\ 100 * quality.rows[i].Found > lo * quality.rows[i].Total
     /\ 100 * quality.rows[i].Found <= hi * quality.rows[i].Total}

\* C10: every rate in 0..100 falls in exactly one bucket: above 90
\* Excellent, else above 70 Good, else above 50 Fair, else Poor (so 90 is
\* Good, 70 is Fair, 50 is Poor), and the four counts add up to the number
\* of fields of the table.
C10_Buckets ==
  (aop = "create_quality_visualization") =>
    /\ categories["Excellent"] = Cardinality(RowsBetween(90, 100))
    /\ categories["Good"] = Cardinality(RowsBetween(70, 90))
    /\ categories["Fair"] = Cardinality(RowsBetween(50, 70))
    /\ categories["Poor"] = Cardinality(RowsBetween(-1, 50))
    /\ categories["Excellent"] + categories["Good"] + categories["Fair"]
         + categories["Poor"] = Len(quality.rows)

\* a table with the rates 90, 70 and 50: one Good, one Fair, one Poor
C10_Witness ==
  /\ aop = "create_quality_visualization"
  /\ Len(quality.rows) = 3
  /\ RateEqual(RowRate(1), Rate(90, 100))
  /\ RateEqual(RowRate(2), Rate(70, 100))
  /\ RateEqual(RowRate(3), Rate(50, 100))
  /\ categories = [b \in BucketNames |-> IF b = "Excellent" THEN 0 ELSE 1]

(***************************************************************************)
(* The order of the columns.                                               *)
(***************************************************************************)
Ordered == saved # "not called" /\ (df_columns # <<>> \/ ordered_columns # <<>>)

IsPriority(c) == c \in Range(priority_columns)

\* the place of column c in the sequence q
IndexIn(q, c) == CHOOSE i \in 1..Len(q) : q[i] = c

\* the sequence out is the sequence in in another order: nothing dropped,
\* nothing added, nothing twice
IsPermutation(out, in) ==
  /\ Len(out) = Len(in)
  /\ Range(out) = Range(in)
  /\ NoDuplicates(out)

\* the priority ids first, in the order of the priority list; the others
\* after them, in the order of the input
PriorityThenRest(out, in) ==
  \A i, j \in 1..Len(out) :
    i < j =>
      /\ IsPriority(out[j]) => IsPriority(out[i])
      /\ (IsPriority(out[i]) /\ IsPriority(out[j])) =>
           IndexIn(priority_columns, out[i]) < IndexIn(priority_columns, out[j])
      /\ (~IsPriority(out[i]) /\ ~IsPriority(out[j])) =>
           IndexIn(in, out[i]) < IndexIn(in, out[j])

ExampleInput == <<"processed_date", "custom_x", "name", "source_file">>

\* C11 as stated: the column order is a permutation of the input, the
\* priority ids that are present first in their fixed order and the other
\* ids after them in their input order; and the fields processed_date,
\* custom_x, name, source_file are ordered source_file, name, custom_x,
\* processed_date.
C11_OrderWithExample ==
  Ordered =>
    /\ IsPermutation(ordered_columns, df_columns)
    /\ PriorityThenRest(ordered_columns, df_columns)
    /\ df_columns = ExampleInput =>
         ordered_columns = <<"source_file", "name", "custom_x", "processed_date">>

\* C11 as amended: the column order is a permutation of the input, the
\* priority ids that are present first in their fixed order and the other
\* ids after them in their input order; processed_date is a priority id, so
\* the fields processed_date, custom_x, name, source_file are ordered
\* source_file, name, processed_date, custom_x.
C11_PriorityThenRest ==
  Ordered =>
    /\ IsPermutation(ordered_columns, df_columns)
    /\ PriorityThenRest(ordered_columns, df_columns)
    /\ df_columns = ExampleInput =>
         ordered_columns = <<"source_file", "name", "processed_date", "custom_x">>

\* the columns of the example were ordered: processed_date stands before
\* custom_x
C11_Witness ==
  /\ Ordered
  /\ df_columns = ExampleInput
  /\ ordered_columns = <<"source_file", "name", "processed_date", "custom_x">>

(***************************************************************************)
(* The insights.                                                           *)
(***************************************************************************)
Mined == aop = "analyze_data_patterns" /\ ~frame.none

\* the values of column c that are not the sentinel; none if c is no column
ValuesOf(c) ==
  IF c \in Range(frame.v.columns) THEN ColumnValues(frame.v, c) ELSE <<>>

\* the insights of one scan in the returned list
InsightsOf(scan) ==
  {i \in 1..Len(insights.items) : insights.items[i].scan = scan}

\* n tenths is the mean of the numbers q to one decimal place
IsMeanToOneDecimal(n, q) ==
  /\ 2 * (n * Len(q) - 10 * Sum(q)) <= Len(q)
  /\ 2 * (10 * Sum(q) - n * Len(q)) <= Len(q)

\* a token that is an integer: a run of the digits 0 to 9
IsIntegerToken(tok) == Len(tok) = 1 /\ tok[1] \in DecimalAtoms

\* the first white space delimited token of the value that is an integer
FirstIntegerToken(value) ==
  LET toks == Split(value)
      at == {i \in 1..Len(toks) : IsIntegerToken(toks[i])}
  IN IF at = {} THEN None
     ELSE Some(DecimalValue(toks[CHOOSE i \in at : \A j \in at : i <= j][1]))

ExperienceContributions ==
  Collect([i \in 1..Len(ValuesOf("experience")) |->
             FirstIntegerToken(ValuesOf("experience")[i])])

\* C12: in the experience scan every value that is not the sentinel
\* contributes its first white space delimited token that is an integer,
\* a value without such a token is skipped and nothing is raised, and an
\* experience insight with the mean of the contributed integers to one
\* decimal place is emitted exactly when a value contributed ("5 years",
\* "N/A", "3 yrs" gives 4.0).
C12_ExperienceMean ==
  Mined =>
    /\ insights.kind = "list"
    /\ Cardinality(InsightsOf("experience"))
         = IF Len(ExperienceContributions) > 0 THEN 1 ELSE 0
    /\ \A i \in InsightsOf("experience") :
         IsMeanToOneDecimal(insights.items[i].n, ExperienceContributions)

\* a bare integer, with or without a sign
IsBareInteger(value) ==
  \/ Len(value) = 1 /\ value[1] \in DecimalAtoms
  \/ Len(value) = 2 /\ value[1] \in {"+", "-"} /\ value[2] \in DecimalAtoms

\* the form n/5
IsOutOfFive(value) ==
  Len(value) = 3 /\ value[1] \in DecimalAtoms /\ value[2] = "/" /\ value[3] = "5"

RatingContribution(value) ==
  IF IsOutOfFive(value) THEN Some(DecimalValue(value[1]))
  ELSE IF IsBareInteger(value) THEN ParseInt(value)
       ELSE None

RatingContributions ==
  Collect([i \in 1..Len(ValuesOf("rating")) |-> RatingContribution(ValuesOf("rating")[i])])

\* C13: in the rating scan every value that is not the sentinel contributes
\* the integer before the slash when it has the form n/5 and its integer
\* value when it is a bare integer; every other value is skipped and nothing
\* is raised, and a rating insight with the mean of the contributed integers
\* is emitted exactly when a value contributed.
C13_RatingMean ==
  Mined =>
    /\ insights.kind = "list"
    /\ Cardinality(InsightsOf("rating"))
         = IF Len(RatingContributions) > 0 THEN 1 ELSE 0
    /\ \A i \in InsightsOf("rating") :
         IsMeanToOneDecimal(insights.items[i].n, RatingContributions)

Scans == Range(ScanColumns)

AtMostOnePerScan ==
  /\ \A scan \in Scans :
       /\ Cardinality(InsightsOf(scan)) <= 1
       /\ Len(ValuesOf(scan)) = 0 => InsightsOf(scan) = {}
  /\ \A i \in 1..Len(insights.items) : insights.items[i].scan \in Scans

AtPrompt == cli \in {"run_converter:input", "main:input"}

\* the list that was displayed before the prompt
Displayed == IF cli = "run_converter:input" THEN pdf_files ELSE main_pdf_files

\* the line is an integer i in 1..n, for the n documents of the list
IsIndex(line, list) ==
  /\ ~ParseInt(line).none
  /\ ParseInt(line).v \in 1..Len(list)

\* the prompt is shown again: the script waits for a line at the same prompt,
\* with the same list, and has not returned
PromptedAgain ==
  /\ cli' = cli
  /\ pdf_files' = pdf_files
  /\ main_pdf_files' = main_pdf_files
  /\ returned' = returned

\* the document chosen at the prompt that was just left
Chosen == IF cli = "run_converter:input" THEN selected' ELSE selected_pdf'

\* C15: at every prompt for a document, with a list of n >= 1 documents, a
\* line that is empty, no number or an integer outside 1..n makes the prompt
\* appear again and never ends the run; the prompt is left only with an
\* index i in 1..n, and the chosen document is entry i of the displayed list.
C15_RepromptUntilValid ==
  [][AtPrompt =>
       IF IsIndex(answer', Displayed)
       THEN Chosen = Some(Displayed[ParseInt(answer').v])
       ELSE PromptedAgain]_vars

\* C16: when the user has made a valid selection at the prompt of
\* run_converter and run_converter returns True, the document that was
\* converted is the selected one and no other selection was asked for.
C16_SelectedIsConverted ==
  (entry = "run_project" /\ returned = "True" /\ ~selected.none) =>
    /\ selected_pdf = selected
    /\ main_pdf_files = <<>>

\* rule i of field f matches the text with a capture that is empty once
\* normalized
CapturesNothing(t, f, i) ==
  /\ Matches(t, extraction_patterns[f][i])
  /\ CollapsedThenTrimmed(RawCapture(t, f, i)) = <<>>

\* C17: every value of a record of extract_data_from_text that is not the
\* sentinel is a non-empty string; when the first matching rule of a field
\* captures a span that is empty once normalized, the field is "Not Found"
\* and no later rule of the field is tried, also when one of them matches
\* with a value.
C17_EmptyCaptureNotFound ==
  Ran =>
    \A f \in FieldSet :
      /\ Len(Record[f]) > 0
      /\ (~NoRuleMatches(text, f) /\ CapturesNothing(text, f, FirstMatchingRule(text, f)))
           => Record[f] = NotFound

\* "DOB: 1990" and then "Date of Birth: " at the end of the text: the first
\* rule captures the blank, the second rule would give 1990, and the date of
\* birth is "Not Found"
C17_Witness ==
  /\ Ran
  /\ CapturesNothing(text, "date_of_birth", 1)
  /\ \E j \in 2..Len(extraction_patterns["date_of_birth"]) :
       /\ Matches(text, extraction_patterns["date_of_birth"][j])
       /\ CollapsedThenTrimmed(RawCapture(text, "date_of_birth", j)) = <<"1990">>
  /\ Record["date_of_birth"] = NotFound

====
